---- MODULE Spec2Model ----
(***************************************************************************)
(* A model of pklaus/audio/spectrum/plot.py: the MicrophoneRecorder        *)
(* (capture thread, lock-protected frame list), the per-tick handler       *)
(* LiveFFTWidget.handleNewData and the DecibelSlider.                      *)
(*                                                                         *)
(* Two execution contexts: the capture thread (capture_frames) and the Qt  *)
(* main thread (timer ticks, slider/checkbox events, start(), close()).    *)
(*                                                                         *)
(* Numbers.  Samples are integers in units of 1/SampleDen.  A decibel      *)
(* value is an integer in units of 1/DbDen dB, with DbDen = INT_MAX -      *)
(* INT_MIN so that int_to_db is exact.  Float arithmetic is idealised as   *)
(* exact rational arithmetic; the non-finite floats are kept as values.    *)
(***************************************************************************)
EXTENDS Integers, Sequences, FiniteSets, TLC

\* ------------------------------------------------------------ bounds
\* Blocks the audio source delivers before a stop is requested.
MaxChunks == 2

\* ------------------------------------------------------------ constants
\* DecibelSlider.INT_MIN, INT_MAX
INT_MIN == 0
INT_MAX == 1000000
\* sample_style[3], sample_style[4]: the bounds the widget gives its slider
low_db == -24
high_db == 24
\* LiveFFTWidget.chunksize, scaled down from 1024*8 to the smallest size whose
\* real DFT has a DC and a Nyquist bin (both real, so magnitudes are exact).
chunksize == 2
\* Samples are fixed-point: the float 1.0 is SampleDen.
SampleDen == 1000
\* sample_style[2]: the display ceiling the auto gain scales the maximum to
ceiling == 1
\* Decibels are fixed-point: 1 dB is DbDen.
DbDen == INT_MAX - INT_MIN

VARIABLES
    \* MicrophoneRecorder
    stop,         \* self.stop
    frames,       \* self.frames
    lock,         \* self.lock: "free", or the context holding it
    capPc,        \* the capture thread's position in capture_frames
    data,         \* capture_frames' local `data`
    recOpen,      \* the `with self.mic.recorder(...)` handle is held
    exitKind,     \* how capture_frames ended
    nread,        \* blocks rec.record() has returned
    \* main thread
    mainPc,       \* the main thread's position
    tickFrames,   \* handleNewData's local `frames`
    closeResult,  \* outcome of the last close()
    timer,        \* LiveFFTWidget.timer
    raised,       \* the latest slider call or tick ended with an exception
    \* widgets
    value,        \* fixedGainSlider.value()
    autoGain,     \* autoGainCheckBox is checked
    cutoff,       \* cutoffSlider.value()
    lineTop,      \* line_top's y data
    lineBottom,   \* line_bottom's y data
    tickGain,     \* handleNewData's local `gain` of the last non-empty tick
    \* history (not program state)
    appendLog,    \* capture numbers of the chunks appended, in order
    drainLog,     \* capture numbers of the chunks get_frames() returned
    lastDrain,    \* capture numbers the latest get_frames() returned
    shownId,      \* capture number of the chunk line_top shows (0: none)
    call,         \* the slider call that set `value`, with its argument
    lateAppends   \* appends made while self.stop was already set

vars == <<stop, frames, lock, capPc, data, recOpen, exitKind, nread,
          mainPc, tickFrames, closeResult, timer, raised,
          value, autoGain, cutoff, lineTop, lineBottom, tickGain,
          appendLog, drainLog, lastDrain, shownId, call, lateAppends>>

recorderVars == <<stop, frames, lock, capPc, data, recOpen, exitKind, nread>>
widgetVars == <<value, autoGain, cutoff, lineTop, lineBottom, tickGain>>
logVars == <<appendLog, drainLog, lastDrain, shownId, call, lateAppends>>

\* ------------------------------------------------------------ audio source
\* Blocks the microphone can deliver (samples in units of 1/SampleDen):
\* silence, a unit impulse, a block with both bins nonzero, a quiet block with
\* only a DC component, and a loud block with only a Nyquist component.
Silence == <<0, 0>>
Impulse == <<SampleDen, 0>>
Mixed == <<SampleDen, SampleDen \div 2>>
Quiet == <<1, 1>>
Loud == <<150 * SampleDen, -150 * SampleDen>>
ChunkValues == {Silence, Impulse, Mixed, Quiet, Loud}

\* rec.record(numframes) returns an array of shape (numframes, channels=1).
Recorded(c) == [i \in 1..Len(c) |-> <<c[i]>>]

\* data.reshape((len(data))): the (n, 1) array flattened to n samples.
Reshape(d) == [i \in 1..Len(d) |-> d[i][1]]

\* The capture numbers of a sequence of chunks.
Ids(fs) == [i \in 1..Len(fs) |-> fs[i].id]

\* ------------------------------------------------------------ MicrophoneRecorder
\* __init__: stop = False, frames = [], a thread object that is not started.
RecorderInit ==
    /\ stop = FALSE
    /\ frames = <<>>
    /\ lock = "free"
    /\ capPc = "unstarted"
    /\ data = <<>>
    /\ recOpen = FALSE
    /\ exitKind = "none"
    /\ nread = 0

\* start(): self.t.start().  A second start() raises RuntimeError and changes
\* nothing, so only the first is an action.
Start ==
    /\ mainPc = "idle"
    /\ capPc = "unstarted"
    /\ capPc' = "open"
    /\ UNCHANGED <<stop, frames, lock, data, recOpen, exitKind, nread>>
    /\ UNCHANGED <<mainPc, tickFrames, closeResult, timer, raised>>
    /\ UNCHANGED widgetVars
    /\ UNCHANGED logVars

\* with self.mic.recorder(...) as rec: the handle is acquired.
CapOpen ==
    /\ capPc = "open"
    /\ recOpen' = TRUE
    /\ capPc' = "record"
    /\ UNCHANGED <<stop, frames, lock, data, exitKind, nread>>
    /\ UNCHANGED <<mainPc, tickFrames, closeResult, timer, raised>>
    /\ UNCHANGED widgetVars
    /\ UNCHANGED logVars

\* A loop that tests self.stop right after the read, before the append.
CapRecordReturn_CheckFirst(source) ==
    /\ capPc = "record"
    /\ nread < MaxChunks \/ stop
    /\ nread' = nread + 1
    /\ IF stop
          THEN /\ capPc' = "done"
               /\ exitKind' = "stop"
               /\ recOpen' = FALSE
               /\ UNCHANGED data
          ELSE /\ \E c \in source :
                    data' = [id |-> nread + 1, samples |-> Reshape(Recorded(c))]
               /\ capPc' = "acquire"
               /\ UNCHANGED <<exitKind, recOpen>>
    /\ UNCHANGED <<stop, frames, lock>>
    /\ UNCHANGED <<mainPc, tickFrames, closeResult, timer, raised>>
    /\ UNCHANGED widgetVars
    /\ UNCHANGED logVars

\* data = rec.record(numframes=self.chunksize); data = data.reshape(...)
\* The blocking read returns a block; the chunk carries its capture number.
CapRecordReturn(source) ==
    /\ capPc = "record"
    /\ nread < MaxChunks \/ stop
    /\ \E c \in source :
          data' = [id |-> nread + 1, samples |-> Reshape(Recorded(c))]
    /\ nread' = nread + 1
    /\ capPc' = "acquire"
    /\ UNCHANGED <<stop, frames, lock, recOpen, exitKind>>
    /\ UNCHANGED <<mainPc, tickFrames, closeResult, timer, raised>>
    /\ UNCHANGED widgetVars
    /\ UNCHANGED logVars

\* A read that raises and leaves the handle open (no `with` block).
CapRecordRaise_KeepOpen ==
    /\ capPc = "record"
    /\ \E kind \in {"interrupt", "failed"} : exitKind' = kind
    /\ capPc' = "done"
    /\ UNCHANGED <<stop, frames, lock, data, nread, recOpen>>
    /\ UNCHANGED <<mainPc, tickFrames, closeResult, timer, raised>>
    /\ UNCHANGED widgetVars
    /\ UNCHANGED logVars

\* The read raises.  The with block releases the handle on the way out;
\* KeyboardInterrupt is caught (pass) and anything else leaves the thread's
\* target as an unhandled exception.  Either way the thread ends.
CapRecordRaise ==
    /\ capPc = "record"
    /\ \E kind \in {"interrupt", "failed"} : exitKind' = kind
    /\ recOpen' = FALSE
    /\ capPc' = "done"
    /\ UNCHANGED <<stop, frames, lock, data, nread>>
    /\ UNCHANGED <<mainPc, tickFrames, closeResult, timer, raised>>
    /\ UNCHANGED widgetVars
    /\ UNCHANGED logVars

\* with self.lock: (entry) -- blocks while the lock is held.
CapAcquire ==
    /\ capPc = "acquire"
    /\ lock = "free"
    /\ lock' = "capture"
    /\ capPc' = "append"
    /\ UNCHANGED <<stop, frames, data, recOpen, exitKind, nread>>
    /\ UNCHANGED <<mainPc, tickFrames, closeResult, timer, raised>>
    /\ UNCHANGED widgetVars
    /\ UNCHANGED logVars

\* self.frames.append(data) with the lock still held afterwards.
CapAppend_KeepLock ==
    /\ capPc = "append"
    /\ frames' = Append(frames, data)
    /\ appendLog' = Append(appendLog, data.id)
    /\ lateAppends' = IF stop THEN lateAppends + 1 ELSE lateAppends
    /\ capPc' = "check"
    /\ data' = <<>>
    /\ UNCHANGED <<stop, lock, recOpen, exitKind, nread>>
    /\ UNCHANGED <<mainPc, tickFrames, closeResult, timer, raised>>
    /\ UNCHANGED widgetVars
    /\ UNCHANGED <<drainLog, lastDrain, shownId, call>>

\* self.frames.append(data), then the with block releases the lock.
CapAppend ==
    /\ capPc = "append"
    /\ frames' = Append(frames, data)
    /\ appendLog' = Append(appendLog, data.id)
    /\ lateAppends' = IF stop THEN lateAppends + 1 ELSE lateAppends
    /\ lock' = "free"
    /\ capPc' = "check"
    /\ data' = <<>>    \* `data` is dead until the next read rebinds it
    /\ UNCHANGED <<stop, recOpen, exitKind, nread>>
    /\ UNCHANGED <<mainPc, tickFrames, closeResult, timer, raised>>
    /\ UNCHANGED widgetVars
    /\ UNCHANGED <<drainLog, lastDrain, shownId, call>>

\* `break` without the test of self.stop: the loop ends after its first block.
CapCheck_BreakAlways ==
    /\ capPc = "check"
    /\ capPc' = "done"
    /\ exitKind' = "stop"
    /\ recOpen' = FALSE
    /\ UNCHANGED <<stop, frames, lock, data, nread>>
    /\ UNCHANGED <<mainPc, tickFrames, closeResult, timer, raised>>
    /\ UNCHANGED widgetVars
    /\ UNCHANGED logVars

\* The loop without `if self.stop: break`: it reads on whatever the flag says.
CapCheck_IgnoreStop ==
    /\ capPc = "check"
    /\ capPc' = "record"
    /\ UNCHANGED <<exitKind, recOpen>>
    /\ UNCHANGED <<stop, frames, lock, data, nread>>
    /\ UNCHANGED <<mainPc, tickFrames, closeResult, timer, raised>>
    /\ UNCHANGED widgetVars
    /\ UNCHANGED logVars

\* if self.stop: break -- leaving the with block releases the handle and the
\* thread ends; otherwise the loop reads the next block.
CapCheck ==
    /\ capPc = "check"
    /\ IF stop
          THEN /\ capPc' = "done"
               /\ exitKind' = "stop"
               /\ recOpen' = FALSE
          ELSE /\ capPc' = "record"
               /\ UNCHANGED <<exitKind, recOpen>>
    /\ UNCHANGED <<stop, frames, lock, data, nread>>
    /\ UNCHANGED <<mainPc, tickFrames, closeResult, timer, raised>>
    /\ UNCHANGED widgetVars
    /\ UNCHANGED logVars

\* get_frames(), entry of `with self.lock:` -- blocks while the lock is held.
GetFramesAcquire ==
    /\ mainPc = "get_frames"
    /\ lock = "free"
    /\ lock' = "main"
    /\ mainPc' = "locked"
    /\ UNCHANGED <<stop, frames, capPc, data, recOpen, exitKind, nread>>
    /\ UNCHANGED <<tickFrames, closeResult, timer, raised>>
    /\ UNCHANGED widgetVars
    /\ UNCHANGED logVars

\* get_frames() that forgets `self.frames = []`.
GetFramesSwap_NoReset ==
    /\ mainPc = "locked"
    /\ tickFrames' = frames
    /\ lastDrain' = Ids(tickFrames')
    /\ drainLog' = drainLog \o Ids(tickFrames')
    /\ lock' = "free"
    /\ mainPc' = "process"
    /\ UNCHANGED <<stop, frames, capPc, data, recOpen, exitKind, nread>>
    /\ UNCHANGED <<closeResult, timer, raised>>
    /\ UNCHANGED widgetVars
    /\ UNCHANGED <<appendLog, shownId, call, lateAppends>>

\* get_frames() that keeps the newest chunk buffered: self.frames = frames[-1:].
GetFramesSwap_KeepLast ==
    /\ mainPc = "locked"
    /\ tickFrames' = frames
    /\ frames' = IF Len(frames) = 0 THEN <<>> ELSE <<frames[Len(frames)]>>
    /\ lastDrain' = Ids(tickFrames')
    /\ drainLog' = drainLog \o Ids(tickFrames')
    /\ lock' = "free"
    /\ mainPc' = "process"
    /\ UNCHANGED <<stop, capPc, data, recOpen, exitKind, nread>>
    /\ UNCHANGED <<closeResult, timer, raised>>
    /\ UNCHANGED widgetVars
    /\ UNCHANGED <<appendLog, shownId, call, lateAppends>>

\* frames = self.frames; self.frames = []; return frames (the lock is released
\* on return).  The result becomes handleNewData's local `frames`.
GetFramesSwap ==
    /\ mainPc = "locked"
    /\ tickFrames' = frames
    /\ frames' = <<>>
    /\ lastDrain' = Ids(tickFrames')
    /\ drainLog' = drainLog \o Ids(tickFrames')
    /\ lock' = "free"
    /\ mainPc' = "process"
    /\ UNCHANGED <<stop, capPc, data, recOpen, exitKind, nread>>
    /\ UNCHANGED <<closeResult, timer, raised>>
    /\ UNCHANGED widgetVars
    /\ UNCHANGED <<appendLog, shownId, call, lateAppends>>

\* close(): self.stop = True
CloseSetStop ==
    /\ mainPc = "idle"
    /\ stop' = TRUE
    /\ mainPc' = "join"
    /\ UNCHANGED <<frames, lock, capPc, data, recOpen, exitKind, nread>>
    /\ UNCHANGED <<tickFrames, closeResult, timer, raised>>
    /\ UNCHANGED widgetVars
    /\ UNCHANGED logVars

\* close() that does not wait for the thread: join() returns at once.
CloseJoin_NoWait ==
    /\ mainPc = "join"
    /\ closeResult' = IF capPc = "unstarted" THEN "raised" ELSE "returned"
    /\ mainPc' = "idle"
    /\ UNCHANGED recorderVars
    /\ UNCHANGED <<tickFrames, timer, raised>>
    /\ UNCHANGED widgetVars
    /\ UNCHANGED logVars

\* close(): self.t.join().  Thread.join() raises RuntimeError on a thread that
\* was never started, returns once a started thread has ended, and blocks
\* until then.
CloseJoin ==
    /\ mainPc = "join"
    /\ capPc \in {"unstarted", "done"}
    /\ closeResult' = IF capPc = "unstarted" THEN "raised" ELSE "returned"
    /\ mainPc' = "idle"
    /\ UNCHANGED recorderVars
    /\ UNCHANGED <<tickFrames, timer, raised>>
    /\ UNCHANGED widgetVars
    /\ UNCHANGED logVars

\* ------------------------------------------------------------ floats
\* A float is a finite value or a non-finite one.  Decibel values are
\* Fin(v), v in units of 1/DbDen dB; ratios are exact fractions.
Fin(v) == [k |-> "fin", v |-> v]
Ratio(n, d) == [k |-> "ratio", num |-> n, den |-> d]
Inf == [k |-> "inf"]
NaN == [k |-> "nan"]
\* In place of a float: the computation raised an exception.
Raise == [k |-> "raise"]

\* math.log10 in units of 1/DbDen, at the integers the model's ratios are
\* made of (math.log10 rounded to six decimals).
log10int(n) ==
    CASE n = 1 -> 0
      [] n = 2 -> 301030
      [] n = 4 -> 602060
      [] n = 10 -> 1000000
      [] n = 251 -> 2399674
      [] n = 252 -> 2401401
      [] n = 500 -> 2698970
      [] n = 1000 -> 3000000
      [] n = 1500 -> 3176091
      [] n = 300000 -> 5477121

\* math.log10(x) for a ratio or +inf: ValueError for x <= 0.
log10(x) ==
    CASE x.k = "inf" -> Inf
      [] x.k = "ratio" /\ x.num <= 0 -> Raise
      [] x.k = "ratio" /\ x.num > 0 ->
            Fin(log10int(x.num) - log10int(x.den))

\* c * x for an integer c > 0 and a float x.
Scale(c, x) == IF x.k = "fin" THEN Fin(c * x.v) ELSE x

\* ------------------------------------------------------------ DecibelSlider
\* int_to_db(val) = (val - INT_MIN) * (high_db - low_db) / (INT_MAX - INT_MIN)
\*                  + low_db, in units of 1/DbDen dB (DbDen = INT_MAX - INT_MIN).
int_to_db(val) == Fin((val - INT_MIN) * (high_db - low_db) + low_db * DbDen)

\* db_to_int that forgets to subtract low_db.
db_to_int_NoOffset(db) ==
    IF db.k = "fin" THEN Ratio(db.v, high_db - low_db) ELSE db

\* db_to_int measured from the wrong end: (high_db - db) in place of
\* (db - low_db).
db_to_int_Reversed(db) ==
    IF db.k = "fin" THEN Ratio(high_db * DbDen - db.v, high_db - low_db) ELSE db

\* db_to_int(db) = (db - low_db) * (INT_MAX - INT_MIN) / (high_db - low_db):
\* a float, not yet rounded.  With db = v / DbDen the factor INT_MAX - INT_MIN
\* cancels DbDen.
db_to_int(db) ==
    IF db.k = "fin" THEN Ratio(db.v - low_db * DbDen, high_db - low_db) ELSE db

\* Python's a < b for an int a and a float b, and b < a: every comparison
\* with nan is False.
IntLess(a, b) ==
    CASE b.k = "ratio" -> a * b.den < b.num
      [] b.k = "inf" -> TRUE
      [] OTHER -> FALSE

LessInt(b, a) ==
    CASE b.k = "ratio" -> b.num < a * b.den
      [] OTHER -> FALSE

\* Python's max(a, b) and min(a, b): a, unless b compares greater (less).
PyMax(a, b) == IF IntLess(a, b) THEN b ELSE Ratio(a, 1)
PyMin(a, b) == IF LessInt(b, a) THEN b ELSE Ratio(a, 1)

\* Python's round(x) of a finite float: to the nearest integer, ties to even.
PyRound(x) ==
    LET q == x.num \div x.den
        r == x.num % x.den
    IN  IF 2 * r < x.den THEN q
        ELSE IF 2 * r > x.den THEN q + 1
        ELSE IF q % 2 = 0 THEN q ELSE q + 1

\* QSlider.setValue(v): the value is kept within [minimum, maximum].
SetValueResult(v) ==
    IF v < INT_MIN THEN INT_MIN ELSE IF v > INT_MAX THEN INT_MAX ELSE v

\* The outcome of a call that sets the slider: the new value, or an exception.
Ok(v) == [ok |-> TRUE, value |-> v]
Failed == [ok |-> FALSE, value |-> 0]

\* The position without its upper clamp: max(INT_MIN, db_to_int(db)).
ClampedPosition_NoUpper(db) == PyMax(INT_MIN, db_to_int(db))

\* value = min(INT_MAX, max(INT_MIN, db_to_int(db)))
ClampedPosition(db) == PyMin(INT_MAX, PyMax(INT_MIN, db_to_int(db)))

\* set_decibel(db): value = min(INT_MAX, max(INT_MIN, db_to_int(db)));
\* setValue(round(value)).  round() of inf or nan raises.
set_decibel(db) ==
    LET v == ClampedPosition(db)
    IN  IF v.k = "ratio" THEN Ok(SetValueResult(PyRound(v))) ELSE Failed

\* set_power_ratio with the amplitude formula: db = 20 * log10(pr).
set_power_ratio_Amplitude(pr) ==
    LET db == Scale(20, log10(pr))
    IN  IF db.k = "raise" THEN Failed ELSE set_decibel(db)

\* set_power_ratio(pr): db = 10 * log10(pr); set_decibel(db)
set_power_ratio(pr) ==
    LET db == Scale(10, log10(pr))
    IN  IF db.k = "raise" THEN Failed ELSE set_decibel(db)

\* set_amplitude_ratio(ar): db = 20 * log10(ar); set_decibel(db)
set_amplitude_ratio(ar) ==
    LET db == Scale(20, log10(ar))
    IN  IF db.k = "raise" THEN Failed ELSE set_decibel(db)

\* decibel(): int_to_db(self.value())
decibel == int_to_db(value)

\* power_ratio() through db_to_amplitude_ratio: 10 ** (decibel() / 20).
power_ratio_Amplitude == [k |-> "pow10", db |-> decibel.v \div 2]

\* power_ratio(): 10 ** (decibel() / 10), kept symbolic.
power_ratio == [k |-> "pow10", db |-> decibel.v]

\* ------------------------------------------------------------ LiveFFTWidget
Abs(x) == IF x < 0 THEN -x ELSE x

\* np.fft.rfft of a two-sample frame: the DC bin and the Nyquist bin, both
\* real.
rfft(x) == <<x[1] + x[2], x[1] - x[2]>>

\* fft_frame[0:k] = 0.0
ZeroBelow(bins, k) == [i \in 1..Len(bins) |-> IF i <= k THEN 0 ELSE bins[i]]

\* np.abs(fft_frame).max()
RECURSIVE MaxAbs(_)
MaxAbs(bins) ==
    IF Len(bins) = 0 THEN 0
    ELSE LET m == MaxAbs(Tail(bins))
             h == Abs(Head(bins))
         IN  IF h > m THEN h ELSE m

\* The gain as the maximum times the ceiling, the reciprocal forgotten.
AutoGainOf_Product(m) == Ratio(m * ceiling, SampleDen)

\* gain = 1 / np.abs(fft_frame).max() * sample_style[2].  numpy divides by
\* zero without raising: 1 / 0.0 is inf.  m is in units of 1/SampleDen.
AutoGainOf(m) == IF m = 0 THEN Inf ELSE Ratio(SampleDen * ceiling, m)

\* np.abs(x * gain) for one bin x (in units of 1/SampleDen): inf * 0 is nan.
Displayed(x, gain) ==
    CASE gain.k = "inf" -> IF x = 0 THEN NaN ELSE Inf
      [] gain.k = "ratio" -> Ratio(Abs(x) * gain.num, gain.den * SampleDen)
      [] gain.k = "pow10" -> [k |-> "scaled", x |-> Abs(x), db |-> gain.db]

\* frames[0] in place of frames[-1].
current_frame_first(fs) == fs[1]

\* frames[-1]
current_frame(fs) == fs[Len(fs)]

\* The widgets after construction: auto gain checked, cutoff slider at 1, the
\* gain slider at QSlider's default value, both lines plotted as ones.
WidgetInit ==
    /\ value = INT_MIN
    /\ autoGain = TRUE
    /\ cutoff = 1
    /\ lineTop = [i \in 1..chunksize |-> SampleDen]
    /\ lineBottom = [i \in 1..(chunksize \div 2 + 1) |-> Ratio(1, 1)]
    /\ tickGain = [k |-> "none"]

\* QTimer timeout: handleNewData() is called and calls self.mic.get_frames().
TickFire ==
    /\ mainPc = "idle"
    /\ timer = "active"
    /\ mainPc' = "get_frames"
    /\ UNCHANGED recorderVars
    /\ UNCHANGED <<tickFrames, closeResult, timer, raised>>
    /\ UNCHANGED widgetVars
    /\ UNCHANGED logVars

\* No slider call accounts for the slider's value.
NoCall == [op |-> "none"]

\* An empty tick that blanks both lines.
EmptyTick_Blank ==
    /\ raised' = FALSE
    /\ lineTop' = [i \in 1..chunksize |-> 0]
    /\ lineBottom' = [i \in 1..(chunksize \div 2 + 1) |-> Ratio(0, 1)]
    /\ UNCHANGED <<value, tickGain, shownId>>

\* handleNewData() when `len(frames) > 0` is false: nothing is done.
EmptyTick ==
    /\ raised' = FALSE
    /\ UNCHANGED <<lineTop, value, tickGain, lineBottom, shownId>>

\* handleNewData() after get_frames() has returned.
HandleNewData ==
    /\ mainPc = "process"
    /\ IF Len(tickFrames) > 0
          THEN LET frame == current_frame(tickFrames).samples
                   fft_frame == ZeroBelow(rfft(frame), cutoff)
                   gain == IF autoGain THEN AutoGainOf(MaxAbs(fft_frame))
                                       ELSE power_ratio
                   set == IF autoGain THEN set_power_ratio(gain) ELSE Ok(value)
               IN  /\ lineTop' = frame
                   /\ shownId' = current_frame(tickFrames).id
                   /\ tickGain' = gain
                   /\ IF set.ok
                         THEN /\ value' = set.value
                              /\ lineBottom' = [i \in 1..Len(fft_frame) |->
                                                  Displayed(fft_frame[i], gain)]
                              /\ raised' = FALSE
                         ELSE \* the exception leaves the handler
                              /\ raised' = TRUE
                              /\ UNCHANGED <<value, lineBottom>>
          ELSE EmptyTick
    /\ tickFrames' = <<>>    \* the local `frames` goes out of scope
    /\ mainPc' = "idle"
    /\ call' = IF Len(tickFrames) > 0 THEN NoCall ELSE call
    /\ UNCHANGED recorderVars
    /\ UNCHANGED <<closeResult, timer, autoGain, cutoff>>
    /\ UNCHANGED <<appendLog, drainLog, lastDrain, lateAppends>>

\* The step of handleNewData that follows get_frames(): HandleNewData is the
\* only action that takes it, and can whenever mainPc is "process".
TickStep == mainPc = "process" /\ mainPc' = "idle"

\* The user toggles the auto-gain checkbox.
ToggleAutoGain ==
    /\ mainPc = "idle"
    /\ autoGain' = ~autoGain
    /\ UNCHANGED recorderVars
    /\ UNCHANGED <<mainPc, tickFrames, closeResult, timer, raised>>
    /\ UNCHANGED <<value, cutoff, lineTop, lineBottom, tickGain>>
    /\ UNCHANGED logVars

\* The user moves the cutoff slider (maximum chunksize // 2).
SetCutoff ==
    /\ mainPc = "idle"
    /\ \E k \in 0..(chunksize \div 2) : cutoff' = k
    /\ UNCHANGED recorderVars
    /\ UNCHANGED <<mainPc, tickFrames, closeResult, timer, raised>>
    /\ UNCHANGED <<value, autoGain, lineTop, lineBottom, tickGain>>
    /\ UNCHANGED logVars

\* Slider positions probed: both ends and their neighbours.
ProbePositions == {INT_MIN, INT_MIN + 1, INT_MAX - 1, INT_MAX}

\* Offsets around a position's decibel value, in units of 1/DbDen dB: the
\* position step is high_db - low_db, a tie is at half of it.
ProbeOffsets ==
    LET step == high_db - low_db
    IN  {0, step \div 2, -(step \div 2), step \div 2 + 1,
         -(step \div 2) - 1, step, -step}

\* Decibel arguments: around every probed position, and far out of range.
DbInputs ==
    {Fin(int_to_db(p).v + o) : p \in ProbePositions, o \in ProbeOffsets}
      \cup {Fin(2 * low_db * DbDen), Fin(2 * high_db * DbDen), Inf}

\* Power-ratio arguments: zero (outside the callers' contract), in range, and
\* on either side of both ends of the range (10 ** 2.4 is about 251.19).
PowerInputs ==
    {Ratio(0, 1), Ratio(1, 1), Ratio(2, 1), Ratio(251, 1), Ratio(252, 1),
     Ratio(1, 251), Ratio(1, 252)}

\* Amplitude-ratio arguments: zero, in range (20 dB, -20 dB) and beyond.
AmplitudeInputs ==
    {Ratio(0, 1), Ratio(1, 1), Ratio(10, 1), Ratio(1, 10), Ratio(251, 1),
     Ratio(1, 251)}

\* The user drags the gain slider: to either end or to the middle.
DragPositions == {INT_MIN, (INT_MIN + INT_MAX) \div 2, INT_MAX}

SliderMoved ==
    /\ mainPc = "idle"
    /\ \E p \in DragPositions : value' = SetValueResult(p)
    /\ call' = NoCall
    /\ UNCHANGED recorderVars
    /\ UNCHANGED <<mainPc, tickFrames, closeResult, timer, raised>>
    /\ UNCHANGED <<autoGain, cutoff, lineTop, lineBottom, tickGain>>
    /\ UNCHANGED <<appendLog, drainLog, lastDrain, shownId, lateAppends>>

\* A call of set_decibel(db).
SetDecibel(db) ==
    /\ mainPc = "idle"
    /\ LET set == set_decibel(db)
       IN  /\ value' = IF set.ok THEN set.value ELSE value
           /\ raised' = ~set.ok
    /\ call' = [op |-> "set_decibel", arg |-> db]
    /\ UNCHANGED recorderVars
    /\ UNCHANGED <<mainPc, tickFrames, closeResult, timer>>
    /\ UNCHANGED <<autoGain, cutoff, lineTop, lineBottom, tickGain>>
    /\ UNCHANGED <<appendLog, drainLog, lastDrain, shownId, lateAppends>>

\* A call of set_power_ratio(pr).
SetPowerRatio(pr) ==
    /\ mainPc = "idle"
    /\ LET set == set_power_ratio(pr)
       IN  /\ value' = IF set.ok THEN set.value ELSE value
           /\ raised' = ~set.ok
    /\ call' = [op |-> "set_power_ratio", arg |-> pr]
    /\ UNCHANGED recorderVars
    /\ UNCHANGED <<mainPc, tickFrames, closeResult, timer>>
    /\ UNCHANGED <<autoGain, cutoff, lineTop, lineBottom, tickGain>>
    /\ UNCHANGED <<appendLog, drainLog, lastDrain, shownId, lateAppends>>

\* A call of set_amplitude_ratio(ar).
SetAmplitudeRatio(ar) ==
    /\ mainPc = "idle"
    /\ LET set == set_amplitude_ratio(ar)
       IN  /\ value' = IF set.ok THEN set.value ELSE value
           /\ raised' = ~set.ok
    /\ call' = [op |-> "set_amplitude_ratio", arg |-> ar]
    /\ UNCHANGED recorderVars
    /\ UNCHANGED <<mainPc, tickFrames, closeResult, timer>>
    /\ UNCHANGED <<autoGain, cutoff, lineTop, lineBottom, tickGain>>
    /\ UNCHANGED <<appendLog, drainLog, lastDrain, shownId, lateAppends>>

\* ------------------------------------------------------------ specifications
Init ==
    /\ RecorderInit
    /\ WidgetInit
    /\ mainPc = "idle"
    /\ tickFrames = <<>>
    /\ closeResult = "none"
    /\ timer = "active"
    /\ raised = FALSE
    /\ appendLog = <<>>
    /\ drainLog = <<>>
    /\ lastDrain = <<>>
    /\ shownId = 0
    /\ call = NoCall
    /\ lateAppends = 0

\* The recorder, the tick and the user's controls.
Next ==
    \/ Start
    \/ CapOpen
    \/ CapRecordReturn(ChunkValues)
    \/ CapRecordRaise
    \/ CapAcquire
    \/ CapAppend
    \/ CapCheck
    \/ TickFire
    \/ GetFramesAcquire
    \/ GetFramesSwap
    \/ HandleNewData
    \/ CloseSetStop
    \/ CloseJoin
    \/ ToggleAutoGain
    \/ SetCutoff
    \/ SliderMoved

Spec == Init /\ [][Next]_vars

\* Blocks for the slider's specification: a zero, an in-range and a too large
\* spectrum maximum.
SliderChunks == {Silence, Impulse, Loud}

\* The slider's callers and the auto-gain tick that feeds it.
SliderNext ==
    \/ Start
    \/ CapOpen
    \/ CapRecordReturn(SliderChunks)
    \/ CapAcquire
    \/ CapAppend
    \/ CapCheck
    \/ TickFire
    \/ GetFramesAcquire
    \/ GetFramesSwap
    \/ HandleNewData
    \/ \E db \in DbInputs : SetDecibel(db)
    \/ \E pr \in PowerInputs : SetPowerRatio(pr)
    \/ \E ar \in AmplitudeInputs : SetAmplitudeRatio(ar)

SliderSpec == Init /\ [][SliderNext]_vars

\* Blocks for the specifications with fairness: one that moves the slider in
\* an auto-gain tick and one that leaves the display as it is.
LiveChunks == {Silence, Impulse}

\* The recorder's life cycle and the tick, without the user's controls.
LiveNext ==
    \/ Start
    \/ CapOpen
    \/ CapRecordReturn(LiveChunks)
    \/ CapRecordRaise
    \/ CapAcquire
    \/ CapAppend
    \/ CapCheck
    \/ TickFire
    \/ GetFramesAcquire
    \/ GetFramesSwap
    \/ HandleNewData
    \/ CloseSetStop
    \/ CloseJoin

\* Scheduling: a thread that can take a step takes it; the timer keeps firing
\* while the main thread is idle; a thread waiting for the lock gets it when
\* it is free often enough (the critical sections are a few statements, the
\* timer period is 100 ms).  The blocking read is not required to return.
Fairness ==
    /\ WF_vars(CapOpen)
    /\ SF_vars(CapAcquire)
    /\ WF_vars(CapAppend)
    /\ WF_vars(CapCheck)
    /\ WF_vars(TickFire)
    /\ SF_vars(GetFramesAcquire)
    /\ WF_vars(GetFramesSwap)
    /\ WF_mainPc(TickStep)    \* HandleNewData
    /\ WF_vars(CloseJoin)

FairSpec == Init /\ [][LiveNext]_vars /\ Fairness

\* As FairSpec, and every blocking read of the audio source returns (with a
\* block or with an exception).
ReadFairSpec ==
    /\ Init /\ [][LiveNext]_vars /\ Fairness
    /\ WF_vars(CapRecordReturn(LiveChunks) \/ CapRecordRaise)

\* ------------------------------------------------------------ claims
\* The bins of the chunk a tick works on: the last one of its drain.
LastBins == ZeroBelow(rfft(tickFrames[Len(tickFrames)].samples), cutoff)

\* C1: every appended chunk is returned by exactly one drain: what the drains
\* have returned so far, followed by what is still buffered, is what was
\* appended, in append order; and each drain returns exactly the chunks
\* appended since the previous drain (nothing when there were none).
C1_DrainExactlyOnce ==
    /\ [](appendLog = drainLog \o Ids(frames))
    /\ [][(mainPc = "locked" /\ mainPc' = "process") =>
            /\ Ids(tickFrames') =
                 SubSeq(appendLog, Len(drainLog) + 1, Len(appendLog))
            /\ drainLog' = appendLog
            /\ frames' = <<>>]_vars

\* A drain of one chunk has been followed by a drain of two more.
C1_Witness ==
    /\ mainPc = "process"
    /\ Len(tickFrames) = 2
    /\ drainLog = <<1, 2, 3>>
    /\ lastDrain = <<2, 3>>

\* C2: once close() waits for a started capture thread, and reads return,
\* the thread ends and close() returns; and a thread that ended on the stop
\* flag has appended every block it read, the one in flight when the flag was
\* set included.
C2_CloseJoinsAfterLastBlock ==
    /\ (mainPc = "join" /\ capPc # "unstarted")
         ~> (mainPc = "idle" /\ capPc = "done" /\ closeResult = "returned")
    /\ []((capPc = "done" /\ exitKind = "stop") => Len(appendLog) = nread)

\* close() has returned after the thread appended a block it was reading
\* when the stop flag was set.
C2_Witness ==
    /\ mainPc = "idle"
    /\ closeResult = "returned"
    /\ exitKind = "stop"
    /\ nread > MaxChunks
    /\ Len(appendLog) = nread

\* C3: close() on a recorder that was never started completes without raising.
C3_CloseUnstartedDoesNotRaise == closeResult # "raised"

\* C4: the capture thread holds the lock only while it appends, never in
\* the blocking read; the main thread holds it only inside get_frames(),
\* never while it processes the frames; so a get_frames() call completes
\* even if the read never returns, and a capture thread waiting for the lock
\* gets to append.
C4_LockOnlyAroundTheList ==
    /\ [](lock = "capture" <=> capPc = "append")
    /\ [](lock = "main" <=> mainPc = "locked")
    /\ (mainPc = "get_frames") ~> (mainPc = "process")
    /\ (capPc = "acquire") ~> (capPc = "check")

\* get_frames() has returned frames while the capture thread sits in a read.
C4_Witness ==
    /\ capPc = "record"
    /\ mainPc = "process"
    /\ Len(tickFrames) > 0
    /\ lock = "free"

\* C5: once a read has failed other than by interruption, the widget gets to
\* know: the pipeline is stopped instead of ticking on.
C5_FailureStopsPipeline == (exitKind = "failed") ~> (timer = "stopped")

\* C6: a tick whose drain is empty changes neither displayed series nor the
\* gain slider, whatever the auto-gain setting.
C6_EmptyTickIsNoop ==
    [][(TickStep /\ Len(tickFrames) = 0) =>
          UNCHANGED <<lineTop, lineBottom, value>>]_vars

\* An empty tick has completed while a frame of an earlier tick is displayed,
\* in manual mode.
C6_Witness ==
    /\ mainPc = "idle"
    /\ lastDrain = <<>>
    /\ Len(drainLog) > 0
    /\ shownId > 0
    /\ ~autoGain

\* C7: a tick whose drain is not empty displays the samples of the drain's
\* last chunk, and the gain and the magnitudes computed from that chunk alone.
C7_LastChunkOnly ==
    [][(TickStep /\ Len(tickFrames) > 0) =>
          /\ lineTop' = tickFrames[Len(tickFrames)].samples
          /\ shownId' = tickFrames[Len(tickFrames)].id
          /\ tickGain' = IF autoGain THEN AutoGainOf(MaxAbs(LastBins))
                                     ELSE power_ratio
          /\ lineBottom' = [i \in 1..Len(LastBins) |->
                              Displayed(LastBins[i], tickGain')]]_vars

\* A tick has displayed the last of several chunks of one drain.
C7_Witness ==
    /\ mainPc = "idle"
    /\ Len(lastDrain) >= 2
    /\ shownId = lastDrain[Len(lastDrain)]

\* C8: an auto-gain tick on a chunk whose spectrum is zero after the cutoff
\* does not raise, computes a finite gain and leaves the slider where it was.
C8_ZeroSpectrumKeepsGain ==
    [][(TickStep /\ Len(tickFrames) > 0 /\ autoGain /\ MaxAbs(LastBins) = 0) =>
          /\ ~raised'
          /\ tickGain'.k \notin {"inf", "nan"}
          /\ value' = value]_vars

\* Whether a decibel value lies below low_db, above high_db.
BelowLow(db) == db.k = "fin" /\ db.v < low_db * DbDen
AboveHigh(db) == db.k = "inf" \/ (db.k = "fin" /\ db.v > high_db * DbDen)

\* What a slider call with decibel value db has done: no exception, and the
\* position at the end db lies beyond.
ClampedAtEnds(db) ==
    /\ ~raised
    /\ BelowLow(db) => value = INT_MIN
    /\ AboveHigh(db) => value = INT_MAX

\* The decibel value of the latest call's argument (for a positive ratio).
CallDb ==
    CASE call.op = "set_decibel" -> call.arg
      [] call.op = "set_power_ratio" -> Scale(10, log10(call.arg))
      [] call.op = "set_amplitude_ratio" -> Scale(20, log10(call.arg))

\* C9: the slider's position is always within [INT_MIN, INT_MAX]; every
\* set_decibel, set_power_ratio (pr > 0) and set_amplitude_ratio (ar > 0)
\* call and every tick ends without an exception, and a call sets INT_MIN for
\* a value below low_db and INT_MAX for a value above high_db.
C9_SliderWithinRange ==
    /\ [](value \in INT_MIN..INT_MAX)
    /\ []((call.op = "set_decibel"
             \/ (call.op \in {"set_power_ratio", "set_amplitude_ratio"}
                   /\ call.arg.num > 0))
            => ClampedAtEnds(CallDb))
    /\ [][TickStep => ~raised']_vars

\* An auto-gain tick on a zero spectrum has put the slider at INT_MAX.
C9_Witness ==
    /\ mainPc = "idle"
    /\ tickGain = Inf
    /\ call = NoCall
    /\ value = INT_MAX
    /\ ~raised

\* One step of the slider's position, in units of 1/DbDen dB.
PositionStep == ((high_db - low_db) * DbDen) \div (INT_MAX - INT_MIN)

\* C10: set_decibel(db) with db in [low_db, high_db] leaves decibel() within
\* one position step of db, and set_decibel(int_to_db(p)) sets position p.
C10_DecibelRoundTrip ==
    /\ (call.op = "set_decibel" /\ call.arg.k = "fin"
          /\ ~BelowLow(call.arg) /\ ~AboveHigh(call.arg))
        => Abs(decibel.v - call.arg.v) <= PositionStep
    /\ \A p \in ProbePositions :
          call = [op |-> "set_decibel", arg |-> int_to_db(p)] => value = p
    /\ set_decibel(decibel) = Ok(value)

\* set_decibel has put the slider one below its maximum, from a decibel value
\* that is not exactly that position's.
C10_Witness ==
    /\ value = INT_MAX - 1
    /\ call.op = "set_decibel"
    /\ call.arg # decibel

\* The spec's life cycle read off the recorder: 0 Idle (thread not started),
\* 1 Running, 2 Stopping (started, stop flag set), 3 Stopped (thread ended).
Lifecycle ==
    CASE capPc = "unstarted" -> 0
      [] capPc = "done" -> 3
      [] stop -> 2
      [] OTHER -> 1

\* The capture thread ends in this step.
ThreadEnds == capPc # "done" /\ capPc' = "done"

\* C11 as stated: the life cycle only moves forward, start() takes Idle to
\* Running, setting the flag takes Running to Stopping, the flag is never
\* cleared, and the thread ends only by observing the flag after a read.
C11_LifecycleAsStated ==
    [][/\ Lifecycle' >= Lifecycle
       /\ (stop => stop')
       /\ (capPc = "unstarted" /\ capPc' # "unstarted" => Lifecycle' = 1)
       /\ (Lifecycle = 1 /\ stop' => Lifecycle' = 2)
       /\ (ThreadEnds => capPc = "check" /\ stop)]_vars

\* C11: the life cycle only moves forward and the stop flag is never cleared
\* (so Running is never re-entered); start() takes Idle to Running, or to
\* Stopping when the flag was set before; setting the flag takes Running to
\* Stopping; the thread ends either on observing the flag after a read whose
\* block it has appended, or on a read that raises.
C11_LifecycleForward ==
    [][/\ Lifecycle' >= Lifecycle
       /\ (stop => stop')
       /\ (capPc = "unstarted" /\ capPc' # "unstarted" =>
             Lifecycle' = IF stop THEN 2 ELSE 1)
       /\ (Lifecycle = 1 /\ stop' => Lifecycle' = 2)
       /\ (ThreadEnds =>
             \/ /\ capPc = "check" /\ stop /\ exitKind' = "stop"
                /\ Len(appendLog) = nread /\ nread > 0
             \/ /\ capPc = "record"
                /\ exitKind' \in {"interrupt", "failed"})]_vars

\* The thread has gone from Running through Stopping to Stopped on the flag.
C11_Witness ==
    /\ capPc = "done"
    /\ exitKind = "stop"
    /\ stop
    /\ nread = MaxChunks
    /\ lateAppends = 1

\* C12: a capture thread that has ended, however it ended, has released the
\* recorder handle; the handle is held only while the thread runs.
C12_HandleReleasedOnExit ==
    /\ capPc = "done" => ~recOpen
    /\ recOpen => capPc \in {"record", "acquire", "append", "check"}
    /\ capPc = "done" => exitKind \in {"stop", "interrupt", "failed"}

\* The thread ended on a failed read, after it had held the handle through
\* a read and an append.
C12_Witness ==
    /\ capPc = "done"
    /\ exitKind = "failed"
    /\ ~recOpen
    /\ Len(appendLog) > 0

\* The unfiltered bins of the chunk a tick works on.
RawBins == rfft(tickFrames[Len(tickFrames)].samples)

\* A displayed magnitude that is zero.
IsZero(y) == (y.k = "ratio" /\ y.num = 0) \/ (y.k = "scaled" /\ y.x = 0)

\* C13: on a tick with cutoff k the displayed bins below k are zero, every
\* bin from k on is the gain times the magnitude of the unfiltered bin, and
\* the auto gain is taken from the maximum after the cutoff.
C13_CutoffZeroesBelowK ==
    [][(TickStep /\ Len(tickFrames) > 0) =>
          /\ \A i \in 1..Len(RawBins) :
                IF i <= cutoff
                   THEN IsZero(lineBottom'[i])
                   ELSE lineBottom'[i] = Displayed(RawBins[i], tickGain')
          /\ autoGain =>
                tickGain' = AutoGainOf(MaxAbs(ZeroBelow(RawBins, cutoff)))]_vars

\* C14: an auto-gain tick whose filtered spectrum has a non-zero maximum M
\* applies the gain ceiling / M; the largest displayed magnitude is the
\* ceiling and no displayed magnitude exceeds it.
C14_AutoGainReachesCeiling ==
    [][(TickStep /\ Len(tickFrames) > 0 /\ autoGain /\ MaxAbs(LastBins) # 0) =>
          /\ tickGain'.k = "ratio"
          /\ tickGain'.num * MaxAbs(LastBins) = ceiling * SampleDen * tickGain'.den
          /\ \A i \in DOMAIN lineBottom' :
                /\ lineBottom'[i].k = "ratio"
                /\ lineBottom'[i].num <= ceiling * lineBottom'[i].den
          /\ \E i \in DOMAIN lineBottom' :
                lineBottom'[i].num = ceiling * lineBottom'[i].den]_vars

\* An auto-gain tick has scaled a chunk with two different non-zero bins: one
\* is displayed at the ceiling, the other below it.
C14_Witness ==
    /\ mainPc = "idle"
    /\ shownId > 0
    /\ tickGain.k = "ratio"
    /\ tickGain.num # tickGain.den
    /\ \E i, j \in DOMAIN lineBottom :
          /\ lineBottom[i].k = "ratio" /\ lineBottom[j].k = "ratio"
          /\ lineBottom[i].num = ceiling * lineBottom[i].den
          /\ 0 < lineBottom[j].num
          /\ lineBottom[j].num < ceiling * lineBottom[j].den

\* The gain of the latest tick in decibels: 10 * log10(gain).
GainDb(gain) == Scale(10, log10(gain)).v

\* A decibel value kept within the slider's range [low_db, high_db].
ClampDb(v) ==
    IF v < low_db * DbDen THEN low_db * DbDen
    ELSE IF v > high_db * DbDen THEN high_db * DbDen ELSE v

\* An auto-gain tick on a non-zero filtered spectrum.
AutoGainTick ==
    TickStep /\ Len(tickFrames) > 0 /\ autoGain /\ MaxAbs(LastBins) # 0

\* C15 as stated: after an auto-gain tick with a non-zero maximum the
\* slider's decibel value is that of the applied gain, within one position
\* step.
C15_SliderEqualsGain ==
    [][AutoGainTick =>
          Abs(int_to_db(value').v - GainDb(tickGain')) <= PositionStep]_vars

\* C15: after an auto-gain tick with a non-zero maximum the slider's decibel
\* value is that of the applied gain clamped to [low_db, high_db], within one
\* position step.
C15_SliderTracksClampedGain ==
    [][AutoGainTick =>
          /\ ~raised'
          /\ Abs(int_to_db(value').v - ClampDb(GainDb(tickGain')))
                <= PositionStep]_vars

\* An auto-gain tick has put the slider at the position of a gain inside the
\* range, a position no other operation of the model sets.
C15_Witness ==
    /\ mainPc = "idle"
    /\ shownId > 0
    /\ tickGain.k = "ratio"
    /\ tickGain.num # tickGain.den
    /\ value \notin DragPositions
    /\ GainDb(tickGain) = ClampDb(GainDb(tickGain))
    /\ Abs(decibel.v - GainDb(tickGain)) <= PositionStep

\* C16: a tick in manual mode applies the gain 10 ** (decibel() / 10) of the
\* slider's position, whatever the chunk, and leaves the position unchanged.
C16_ManualGainFromSlider ==
    [][(TickStep /\ Len(tickFrames) > 0 /\ ~autoGain) =>
          /\ ~raised'
          /\ value' = value
          /\ tickGain' = [k |-> "pow10", db |-> int_to_db(value).v]
          /\ lineBottom' = [i \in 1..Len(LastBins) |->
                              [k |-> "scaled", x |-> Abs(LastBins[i]),
                               db |-> int_to_db(value).v]]]_vars

\* A manual tick has applied the gain of a slider the user had moved off
\* its ends.
C16_Witness ==
    /\ mainPc = "idle"
    /\ ~autoGain
    /\ shownId > 0
    /\ value \notin {INT_MIN, INT_MAX}
    /\ tickGain = [k |-> "pow10", db |-> int_to_db(value).v]
    /\ \E i \in DOMAIN lineBottom :
          lineBottom[i].k = "scaled" /\ lineBottom[i].x > 0

\* a <= b for decibel values (finite or +inf) and for positive ratios.
DbLeq(a, b) == b.k = "inf" \/ (a.k = "fin" /\ b.k = "fin" /\ a.v <= b.v)
RatioLeq(p, q) == p.num * q.den <= q.num * p.den

\* C17: setting the slider is monotone, the clamped regions included: the
\* position (and so decibel()) that set_decibel leaves for a value is at
\* most the one it leaves for any larger value and at least the one for any
\* smaller value; the same for set_power_ratio on positive ratios.
C17_SetIsMonotone ==
    /\ call.op = "set_decibel" =>
          \A d \in DbInputs :
             /\ DbLeq(d, call.arg) =>
                   /\ set_decibel(d).value <= value
                   /\ int_to_db(set_decibel(d).value).v <= decibel.v
             /\ DbLeq(call.arg, d) =>
                   /\ value <= set_decibel(d).value
                   /\ decibel.v <= int_to_db(set_decibel(d).value).v
    /\ (call.op = "set_power_ratio" /\ call.arg.num > 0) =>
          \A p \in {q \in PowerInputs : q.num > 0} :
             /\ RatioLeq(p, call.arg) =>
                   /\ set_power_ratio(p).value <= value
                   /\ int_to_db(set_power_ratio(p).value).v <= decibel.v
             /\ RatioLeq(call.arg, p) =>
                   /\ value <= set_power_ratio(p).value
                   /\ decibel.v <= int_to_db(set_power_ratio(p).value).v

\* set_decibel has left the slider strictly between its ends, above the
\* position of a smaller input and below that of a larger one.
C17_Witness ==
    /\ call.op = "set_decibel"
    /\ value \notin {INT_MIN, INT_MAX}
    /\ \E d, e \in DbInputs :
          /\ DbLeq(d, call.arg) /\ set_decibel(d).value < value
          /\ DbLeq(call.arg, e) /\ value < set_decibel(e).value

\* C18: once the stop flag is set the capture thread appends at most one
\* more chunk, wherever in its loop it was; after that append it only tests
\* the flag and ends.
C18_AtMostOneAppendAfterStop ==
    /\ lateAppends <= 1
    /\ lateAppends = 1 => capPc \in {"check", "done"}

\* The flag was set while the thread sat in a read; the thread has appended
\* that read's block and ended.
C18_Witness ==
    /\ stop
    /\ capPc = "done"
    /\ exitKind = "stop"
    /\ lateAppends = 1
    /\ Len(appendLog) = MaxChunks + 1

\* C19: the chunks the ticks display are strictly increasing in capture
\* order: a tick that displays a chunk displays one captured after the chunk
\* any earlier tick displayed, and no other step changes the displayed chunk.
C19_DisplayedChunksIncrease ==
    [][/\ (TickStep /\ Len(tickFrames) > 0) => shownId' > shownId
       /\ ~(TickStep /\ Len(tickFrames) > 0) => shownId' = shownId]_vars

\* A tick has displayed a chunk after an earlier tick had displayed another.
C19_Witness ==
    /\ mainPc = "idle"
    /\ Len(lastDrain) > 0
    /\ Len(drainLog) > Len(lastDrain)
    /\ shownId = lastDrain[Len(lastDrain)]
    /\ shownId > 1

\* C20: once close() has returned on a started recorder the capture thread
\* has ended and appends nothing more; the buffer changes only by a drain,
\* which empties it, and once it is empty every drain returns nothing.
C20_NoAppendAfterClose ==
    /\ [](closeResult = "returned" => capPc = "done")
    /\ [][closeResult = "returned" =>
            /\ appendLog' = appendLog
            /\ frames' # frames =>
                  (mainPc = "locked" /\ tickFrames' = frames /\ frames' = <<>>)
            /\ frames = <<>> => frames' = <<>>
            /\ (mainPc = "locked" /\ mainPc' = "process" /\ frames = <<>>) =>
                  tickFrames' = <<>>]_vars

\* After close() returned, a drain took the last chunks and a later drain
\* came back empty.
C20_Witness ==
    /\ closeResult = "returned"
    /\ capPc = "done"
    /\ mainPc = "process"
    /\ tickFrames = <<>>
    /\ drainLog = appendLog
    /\ Len(appendLog) > 0
    /\ lateAppends = 1

====
